---- MODULE Spec2Model ----
(***************************************************************************)
(* Model of the JNI bridge src/src/cryptobox-jni.c: the binding cache      *)
(* filled by JNI_OnLoad, the twelve registered native methods, and the     *)
(* native engine (cbox) and the JNI runtime as far as the bridge calls     *)
(* them.  One action per native method; the faults the engine and the      *)
(* runtime can report are inputs of the actions.                           *)
(***************************************************************************)
EXTENDS Integers, Sequences, FiniteSets, TLC

\* ---- bounds -------------------------------------------------------------
MaxStores == 1     \* stores the engine opens in one run
MaxSessions == 2   \* sessions the engine creates in one run
MaxNum == 2        \* largest j_num of jniNewPreKeys

\* ---- program constants ---------------------------------------------------
CBOX_SUCCESS == 0
NULL == 0
U16 == 65536
JNI_ABORT == 2     \* release mode: free the buffer without copying back

ErrCodes == {1, 2}          \* two non-success CBoxResult codes
Starts   == {0, 3}          \* values of j_start
Sids     == {"alice"}
Threads  == {"t1", "t2"}    \* the threads followed inside jniEncrypt / jniDecrypt
Lens     == {2, 65537}      \* lengths of the managed byte arrays passed in

\* the six cached classes and five cached constructors, in resolution order
ClassOrder == <<"ex", "box", "sess", "sessmsg", "bytearr", "pkbundle">>
CtorOrder  == <<"ex", "sess", "box", "sessmsg", "pkbundle">>
Classes    == {ClassOrder[i] : i \in 1..Len(ClassOrder)}
Ctors      == {CtorOrder[i] : i \in 1..Len(CtorOrder)}

VARIABLES
    lib,         \* "init", "loaded" (JNI_OnLoad ran), "unloaded"
    loadRc,      \* what JNI_OnLoad returned
    loadPending, \* JNI_OnLoad returned with an exception pending
    clsRef,      \* [Classes -> BOOLEAN]: the jclass global is non-NULL
    ctorId,      \* [Ctors -> BOOLEAN]: the jmethodID global is non-NULL
    registered,  \* [{"box","sess"} -> BOOLEAN]: RegisterNatives succeeded
    refsNew,     \* [Classes -> Nat]: NewGlobalRef results held
    refsDel,     \* [Classes -> Nat]: DeleteGlobalRef calls
    handles,     \* native handles the engine created: seq of [kind, closes]
    vecLive,     \* CBoxVec buffers the engine produced that were never freed
    vecOver,     \* CBoxVec buffers that were freed more than once
    nullFrees,   \* cbox_vec_free calls on a pointer the engine never produced
    wrappers,    \* managed wrappers constructed: seq of [cls, ptr, sid, held]
    last,        \* the last native-method call: inputs, faults, result
    crashed,     \* the process died inside a call
    thr          \* [Threads -> [pc, op, ptr, len]]: a thread inside jniEncrypt
                 \* or jniDecrypt, where it is followed step by step

vars == <<lib, loadRc, loadPending, clsRef, ctorId, registered, refsNew, refsDel,
          handles, vecLive, vecOver, nullFrees, wrappers, last, crashed, thr>>

cacheVars == <<lib, loadRc, loadPending, clsRef, ctorId, registered, refsNew, refsDel>>
bufVars   == <<vecLive, vecOver, nullFrees>>

\* ---- events of one call ---------------------------------------------------
Ev(name, a, b) == <<name, a, b>>

NativeOps == {"cbox_file_open", "cbox_close", "cbox_new_prekey",
              "cbox_fingerprint_local", "cbox_session_init_from_prekey",
              "cbox_session_init_from_message", "cbox_session_get",
              "cbox_encrypt", "cbox_decrypt", "cbox_session_save",
              "cbox_session_close", "cbox_fingerprint_remote"}

\* ---- pending exception of the JNI environment ----------------------------
NoEx       == [kind |-> "none", code |-> 0]
RuntimeEx  == [kind |-> "runtime", code |-> 0]     \* OutOfMemoryError etc.
TypedEx(c) == [kind |-> "typed", code |-> c]       \* CryptoException(code)

\* cboxjni_throw: NewObject of the exception class, Throw unless it failed
cboxjni_throw(code, exOk) ==
    IF exOk THEN TypedEx(code) ELSE RuntimeEx

\* (mutant) the return after the raise is missing: the call goes on to the
\* conversion of the buffer the engine left NULL
raise_and_fall_through(t, rc) ==
    t \o <<Ev("cboxjni_throw", rc, 0), Ev("cbox_vec_len", NULL, 0)>>

\* "cboxjni_throw(j_env, rc); return NULL;" after the events t: the events
\* of the call up to its return
raise_and_return(t, rc) == Append(t, Ev("cboxjni_throw", rc, 0))

\* (mutant) the failure path of the array borrow returns with the string
\* still borrowed
release_sid_skipped(t) == t

\* "if (prekey == NULL) { ReleaseStringUTFChars(j_env, j_sid, sid); return NULL; }"
\* after the events t
release_sid(t) == Append(t, Ev("ReleaseStringUTFChars", 0, 0))

\* (mutant) the NULL test is inverted
cboxjni_check_error_inverted(pend, isNull) ==
    pend.kind # "none" /\ ~isNull

\* cboxjni_check_error: an exception is pending or the value is NULL
cboxjni_check_error(pend, isNull) ==
    pend.kind # "none" \/ isNull

\* what a JNI call that returned NULL (isNull) left pending
Raised(isNull) == IF isNull THEN RuntimeEx ELSE NoEx

\* ---- the record of a call -------------------------------------------------
NoCall ==
    [op |-> "none", ptr |-> 0, fault |-> "none", rc |-> 0, at |-> 0,
     start |-> 0, num |-> 0, len |-> 0,
     ret |-> "none", obj |-> 0, arr |-> <<>>, bundles |-> <<>>,
     vecs |-> <<>>, nullFrees |-> 0,
     pending |-> NoEx, trace |-> <<>>]

\* a thread that is not inside jniEncrypt or jniDecrypt
InJava == [pc |-> "java", op |-> "none", ptr |-> 0, len |-> 0]

Init ==
    /\ lib = "init"
    /\ loadRc = "none"
    /\ loadPending = FALSE
    /\ clsRef = [c \in Classes |-> FALSE]
    /\ ctorId = [c \in Ctors |-> FALSE]
    /\ registered = [k \in {"box", "sess"} |-> FALSE]
    /\ refsNew = [c \in Classes |-> 0]
    /\ refsDel = [c \in Classes |-> 0]
    /\ handles = <<>>
    /\ vecLive = 0
    /\ vecOver = 0
    /\ nullFrees = 0
    /\ wrappers = <<>>
    /\ last = NoCall
    /\ crashed = FALSE
    /\ thr = [t \in Threads |-> InJava]

\* ---- binding cache ---------------------------------------------------------
\* position of a class / constructor in its resolution order
ClassPos(c) == CHOOSE i \in 1..Len(ClassOrder) : ClassOrder[i] = c
CtorPos(c)  == CHOOSE i \in 1..Len(CtorOrder) : CtorOrder[i] = c

\* the check made after resolving constructor c (lines 430..442): the
\* variable tested is the one just assigned, except after the prekey-bundle
\* constructor, where the session-message constructor is tested again
CtorChecked(c) == IF c = "pkbundle" THEN "sessmsg" ELSE c

\* JNI_OnLoad.  failCls / failCtor / failReg name the resolution step the
\* runtime fails (0: none); refFail: the class was found but NewGlobalRef
\* returned NULL.  FindClass, GetMethodID and RegisterNatives raise when they
\* fail, and nothing in JNI_OnLoad clears the exception.
JNI_OnLoad ==
    /\ lib = "init"
    /\ \E envOk \in BOOLEAN, failCls \in 0..Len(ClassOrder), refFail \in BOOLEAN,
          failCtor \in 0..Len(CtorOrder), failReg \in 0..2 :
        LET clsTried(c) == envOk /\ (failCls = 0 \/ ClassPos(c) <= failCls)
            clsGot(c)   == clsTried(c) /\ ClassPos(c) # failCls
            allCls      == envOk /\ failCls = 0
            \* value GetMethodID gives for constructor c, if it is called
            ctorVal(c)  == CtorPos(c) # failCtor
            \* constructor c is resolved when every earlier check passed
            ctorTried[i \in 1..Len(CtorOrder)] ==
                IF i = 1 THEN allCls
                ELSE ctorTried[i-1] /\ ctorVal(CtorChecked(CtorOrder[i-1]))
            ctorGot(c)  == ctorTried[CtorPos(c)] /\ ctorVal(c)
            ctorsPass   == ctorTried[Len(CtorOrder)]
                           /\ ctorVal(CtorChecked(CtorOrder[Len(CtorOrder)]))
            regBox      == ctorsPass /\ failReg # 1
            regSess     == regBox /\ failReg # 2
        IN  /\ clsRef' = [c \in Classes |-> clsGot(c)]
            /\ refsNew' = [c \in Classes |-> IF clsGot(c) THEN 1 ELSE 0]
            /\ ctorId' = [c \in Ctors |-> ctorGot(c)]
            /\ registered' = [k \in {"box", "sess"} |->
                                IF k = "box" THEN regBox ELSE regSess]
            /\ loadRc' = IF ~envOk THEN "JNI_EVERSION"
                         ELSE IF regSess THEN "JNI_VERSION_1_6"
                         ELSE "JNI_ERR"
            /\ loadPending' = ((envOk /\ failCls # 0 /\ ~refFail)
                               \/ (\E i \in 1..Len(CtorOrder) :
                                      (ctorTried[i] /\ ~ctorVal(CtorOrder[i])))
                               \/ (ctorsPass /\ failReg # 0))
            /\ (refFail => failCls # 0)
    /\ lib' = "loaded"
    /\ UNCHANGED <<refsDel, handles, bufVars, wrappers, last, crashed, thr>>

\* (mutant) DeleteGlobalRef is called without the test for NULL
unload_release_unchecked(envOk, ref, dels) == IF envOk THEN dels + 1 ELSE dels

\* "if (cls != NULL) DeleteGlobalRef(cls)", reached only when GetEnv gave JNI_OK
unload_release(envOk, ref, dels) == IF envOk /\ ref THEN dels + 1 ELSE dels

\* JNI_OnUnload: DeleteGlobalRef of every class variable that is not NULL;
\* nothing when GetEnv does not give JNI_OK (fault "env")
JNI_OnUnload ==
    /\ lib = "loaded"
    /\ ~crashed
    /\ \E envOk \in BOOLEAN :
        /\ refsDel' = [c \in Classes |-> unload_release(envOk, clsRef[c], refsDel[c])]
        /\ last' = [NoCall EXCEPT !.op = "unload",
                                  !.fault = IF envOk THEN "none" ELSE "env"]
    /\ lib' = "unloaded"
    /\ UNCHANGED <<loadRc, loadPending, clsRef, ctorId, registered, refsNew,
                   handles, bufVars, wrappers, crashed, thr>>

\* ---- native engine and managed heap ---------------------------------------
\* a jlong handed to a native method is the ptr field of a wrapper the caller
\* holds; the bridge checks nothing about it
Live(h)      == handles[h].closes = 0
HeldPtrs(k)  == {wrappers[i].ptr : i \in {j \in DOMAIN wrappers :
                                           wrappers[j].held /\ wrappers[j].cls = k}}
LivePtrs(k)  == {h \in HeldPtrs(k) : h \in DOMAIN handles /\ Live(h)}

\* the engine creates a store or session and returns its address
NumHandles(k) == Cardinality({h \in DOMAIN handles : handles[h].kind = k})
NewHandle(hs, k) == Append(hs, [kind |-> k, closes |-> 0])
\* cbox_close / cbox_session_close release the object at the address
CloseHandle(hs, h) == [hs EXCEPT ![h].closes = @ + 1]

\* the engine produces a CBoxVec; cbox_vec_free releases it.  vs: the buffers
\* produced during the current call, each with the number of times it was freed
VecNew(vs)     == Append(vs, 0)
VecFree(vs, v) == [vs EXCEPT ![v] = @ + 1]
\* the bytes of a buffer the engine produced for x (opaque to the bridge)
EngineBytes(x) == <<x % 256, (x + 1) % 256>>

\* the buffer accounting at the return of a call
Account(vs, nf) ==
    /\ vecLive' = vecLive + Cardinality({v \in DOMAIN vs : vs[v] = 0})
    /\ vecOver' = vecOver + Cardinality({v \in DOMAIN vs : vs[v] > 1})
    /\ nullFrees' = nullFrees + nf

\* NewObject of a wrapper class around a handle
NewWrapper(ws, k, h, sid, held) ==
    Append(ws, [cls |-> k, ptr |-> h, sid |-> sid, held |-> held])

\* the engine's heap is intact: no address was released a second time and
\* cbox_vec_free was given nothing but buffers the engine produced.  What
\* the process does after such a release is undefined, so a run is followed
\* up to the call that makes it and no further
HeapDefined ==
    /\ nullFrees = 0
    /\ vecOver = 0
    /\ \A h \in DOMAIN handles : handles[h].closes <= 1

\* a native method of class k can be called: the runtime keeps the library,
\* and the classes that load it, only when JNI_OnLoad returned a version and
\* left no exception pending; the method is bound by RegisterNatives
Callable(k) ==
    /\ lib = "loaded"
    /\ loadRc = "JNI_VERSION_1_6"
    /\ ~loadPending
    /\ registered[k]
    /\ ~crashed
    /\ HeapDefined

\* the length a native call receives for a managed array of length n
AsUint16(n) == n % U16            \* uint16_t prekey_len
AsUint32(n) == n                  \* uint32_t of a jsize, which is 0..2^31-1

\* ---- cboxjni_vec2arr --------------------------------------------------------
\* (mutant) the allocation-failure path returns without freeing the buffer
vec2arr_leak_on_error(vs, v) == vs

\* the cbox_vec_free of the allocation-failure path and the one after the copy
vec2arr_free_on_error(vs, v)   == VecFree(vs, v)
vec2arr_free_after_copy(vs, v) == VecFree(vs, v)

\* (mutant) the copy stops one byte short of the buffer's length
vec2arr_copy_short(bytes, v_len) == [i \in 1..(v_len - 1) |-> bytes[i]]

\* the region SetByteArrayRegion writes into the new array: v_len bytes at 0
vec2arr_copy(bytes, v_len) == [i \in 1..v_len |-> bytes[i]]

\* v: the CBoxVec pointer (NULL when the engine produced none), data: its
\* bytes, pend: the exception pending on entry, vs / nf: the accounting of
\* the call so far.  With v = NULL the reads cbox_vec_len(NULL),
\* cbox_vec_data(NULL) and cbox_vec_free(NULL) are undefined: ub chooses
\* between the process dying at the first read and the reads going through
\* with a zero length.
cboxjni_vec2arr(v, data, pend, allocOk, copyOk, ub, vs, nf) ==
    LET v_len  == IF v = NULL THEN 0 ELSE Len(data)
        bytes  == IF v = NULL THEN <<>> ELSE data
        nfFree == IF v = NULL THEN nf + 1 ELSE nf
        tLen   == <<Ev("cbox_vec_len", v, 0), Ev("NewByteArray", v_len, 0)>>
        tCopy  == tLen \o <<Ev("cbox_vec_data", v, 0),
                            Ev("SetByteArrayRegion", v_len, 0),
                            Ev("cbox_vec_free", v, 0)>>
    IN  IF v = NULL /\ ub = "crash"
        THEN [isNull |-> TRUE, arr |-> <<>>, pending |-> pend, crash |-> TRUE,
              trace |-> <<Ev("cbox_vec_len", v, 0)>>, vecs |-> vs, nullFrees |-> nf]
        ELSE IF cboxjni_check_error(IF pend.kind # "none" THEN pend
                                    ELSE Raised(~allocOk), ~allocOk)
        THEN [isNull |-> TRUE, arr |-> <<>>, crash |-> FALSE,
              pending |-> IF pend.kind # "none" THEN pend ELSE RuntimeEx,
              trace |-> tLen \o <<Ev("cbox_vec_free", v, 0)>>,
              vecs |-> IF v = NULL THEN vs ELSE vec2arr_free_on_error(vs, v),
              nullFrees |-> nfFree]
        ELSE LET vsFree == IF v = NULL THEN vs ELSE vec2arr_free_after_copy(vs, v)
             IN  IF ~copyOk \/ ~allocOk
                 THEN [isNull |-> TRUE, arr |-> <<>>, crash |-> FALSE,
                       pending |-> RuntimeEx, trace |-> tCopy,
                       vecs |-> vsFree, nullFrees |-> nfFree]
                 ELSE [isNull |-> FALSE, arr |-> vec2arr_copy(bytes, v_len),
                       crash |-> FALSE, pending |-> NoEx, trace |-> tCopy,
                       vecs |-> vsFree, nullFrees |-> nfFree]

\* ---- cboxjni_new_session ------------------------------------------------------
\* (mutant) the wrapper is built around the address before csess
cboxjni_new_session_stale(ws, csess, sid, objOk, held) ==
    IF ~objOk
    THEN [isNull |-> TRUE, obj |-> 0, pending |-> RuntimeEx, wrappers |-> ws]
    ELSE [isNull |-> FALSE, obj |-> Len(ws) + 1, pending |-> NoEx,
          wrappers |-> NewWrapper(ws, "sess", csess - 1, sid, held)]

\* NewObject of the session class around csess; NULL when it failed.  held:
\* the new object ends up with the caller
cboxjni_new_session(ws, csess, sid, objOk, held) ==
    IF cboxjni_check_error(Raised(~objOk), ~objOk)
    THEN [isNull |-> TRUE, obj |-> 0, pending |-> RuntimeEx, wrappers |-> ws]
    ELSE [isNull |-> FALSE, obj |-> Len(ws) + 1, pending |-> NoEx,
          wrappers |-> NewWrapper(ws, "sess", csess, sid, held)]

\* ---- CryptoBox methods --------------------------------------------------------
OpenFaults == {"none", "borrow", "native", "throw", "ctor"}

\* the faults with which the engine call itself succeeds
Creating(fault) == fault \notin {"borrow", "sid", "arr", "native", "throw"}

\* the result code the engine returns under a fault
EngineRc(fault, code) ==
    IF fault \in {"native", "throw"} THEN code ELSE CBOX_SUCCESS

cboxjni_open ==
    /\ Callable("box")
    /\ \E fault \in OpenFaults, code \in ErrCodes :
        /\ (fault # "native" => code = 1)
        /\ (Creating(fault) => NumHandles("box") < MaxStores)
        \* one storage location; the engine wants it opened by one store at a time
        /\ LivePtrs("box") = {}
        /\ LET dirNull == fault = "borrow"                \* GetStringUTFChars
               rc     == EngineRc(fault, code)
               cbox   == IF rc = CBOX_SUCCESS THEN Len(handles) + 1 ELSE NULL
               objNull == fault = "ctor"                  \* NewObject
               tCall  == <<Ev("GetStringUTFChars", 0, 1), Ev("cbox_file_open", 0, 0),
                           Ev("ReleaseStringUTFChars", 0, 0)>>
               call   == [NoCall EXCEPT !.op = "open", !.fault = fault]
           IN  IF cboxjni_check_error(Raised(dirNull), dirNull)
               THEN /\ last' = [call EXCEPT !.ret = "null", !.pending = RuntimeEx,
                                            !.trace = <<Ev("GetStringUTFChars", 0, NULL)>>]
                    /\ UNCHANGED <<handles, wrappers>>
               ELSE IF rc # CBOX_SUCCESS
               THEN /\ last' = [call EXCEPT !.ret = "null", !.rc = rc,
                                   !.trace = raise_and_return(tCall, rc),
                                   !.pending = cboxjni_throw(rc, fault # "throw")]
                    /\ UNCHANGED <<handles, wrappers>>
               ELSE /\ handles' = NewHandle(handles, "box")
                    /\ IF cboxjni_check_error(Raised(objNull), objNull)
                       THEN /\ last' = [call EXCEPT !.ret = "null", !.trace = tCall,
                                                    !.pending = RuntimeEx]
                            /\ UNCHANGED wrappers
                       ELSE /\ wrappers' = NewWrapper(wrappers, "box", cbox, "", TRUE)
                            /\ last' = [call EXCEPT !.ret = "obj", !.trace = tCall,
                                                    !.obj = Len(wrappers) + 1]
    /\ UNCHANGED <<cacheVars, bufVars, crashed, thr>>

\* cbox_close on whatever address the caller passes; on an address already
\* closed the release is undefined: the process dies or goes on
cboxjni_close ==
    /\ Callable("box")
    /\ \E j_ptr \in HeldPtrs("box"), ub \in {"crash", "garbage"} :
        /\ (ub = "crash" => ~Live(j_ptr))
        /\ handles' = CloseHandle(handles, j_ptr)
        /\ crashed' = (ub = "crash")
        /\ last' = [NoCall EXCEPT !.op = "close", !.ptr = j_ptr,
                        !.ret = IF ub = "crash" THEN "crash" ELSE "void",
                        !.trace = <<Ev("cbox_close", j_ptr, 0)>>]
    /\ UNCHANGED <<cacheVars, bufVars, wrappers, thr>>

\* (mutant) the id of every bundle is the start id
new_prekeys_id_const(j_start, i) == j_start

\* jint j_id = j_start + i
new_prekeys_id(j_start, i) == j_start + i

\* cboxjni_new_prekeys, the loop from iteration i on.
\* acc: [built, trace, vecs, ret, pending, rc, crash]
RECURSIVE new_prekeys_loop(_, _, _, _, _, _, _, _, _)
new_prekeys_loop(i, j_ptr, j_start, j_num, at, fault, code, pkCtor, acc) ==
    IF ~(i < j_num)
    THEN [acc EXCEPT !.ret = "bundles"]
    ELSE
    LET j_id  == new_prekeys_id(j_start, i)
        hit   == (i = at)
        rc    == IF hit THEN EngineRc(fault, code) ELSE CBOX_SUCCESS
        tN    == Append(acc.trace, Ev("cbox_new_prekey", j_ptr, j_id))
        prekey == Len(acc.vecs) + 1
        conv  == cboxjni_vec2arr(prekey, EngineBytes(j_id), NoEx,
                                 ~(hit /\ fault = "alloc"), ~(hit /\ fault = "copy"),
                                 "garbage", VecNew(acc.vecs), 0)
        tC    == tN \o conv.trace
        pkbNull == hit /\ fault = "ctor"                 \* NewObject
    IN  IF rc # CBOX_SUCCESS
        THEN [acc EXCEPT !.ret = "null", !.rc = rc,
                         !.trace = raise_and_return(tN, rc),
                         !.pending = cboxjni_throw(rc, fault # "throw")]
        ELSE IF conv.isNull
        THEN [acc EXCEPT !.ret = "null", !.trace = tC, !.vecs = conv.vecs,
                         !.pending = conv.pending]
        ELSE IF ~pkCtor       \* NewObject with a NULL jmethodID: undefined
        THEN [acc EXCEPT !.ret = "crash", !.trace = tC, !.vecs = conv.vecs,
                         !.crash = TRUE]
        ELSE IF cboxjni_check_error(Raised(pkbNull), pkbNull)
        THEN [acc EXCEPT !.ret = "null", !.trace = tC, !.vecs = conv.vecs,
                         !.pending = RuntimeEx]
        ELSE IF hit /\ fault = "store"         \* SetObjectArrayElement raised
        THEN [acc EXCEPT !.ret = "null", !.trace = tC, !.vecs = conv.vecs,
                         !.pending = RuntimeEx]
        ELSE new_prekeys_loop(i + 1, j_ptr, j_start, j_num, at, fault, code, pkCtor,
                 [acc EXCEPT !.trace = tC, !.vecs = conv.vecs,
                             !.built = Append(@, [id |-> j_id, key |-> conv.arr])])

PrekeyFaults == {"none", "array", "native", "throw", "alloc", "copy", "ctor", "store"}

cboxjni_new_prekeys ==
    /\ Callable("box")
    /\ \E j_ptr \in LivePtrs("box"), j_start \in Starts, j_num \in (-1)..MaxNum,
          fault \in PrekeyFaults, at \in 0..MaxNum, code \in ErrCodes :
        /\ (j_num < 0 => fault = "array")     \* NewObjectArray of a negative size
        /\ IF fault \in {"none", "array"} THEN at = 0 ELSE at < j_num
        /\ (fault # "native" => code = 1)
        /\ LET call == [NoCall EXCEPT !.op = "new_prekeys", !.ptr = j_ptr,
                            !.fault = fault, !.at = at,
                            !.start = j_start, !.num = j_num]
               acc0 == [built |-> <<>>, trace |-> <<>>, vecs |-> <<>>, ret |-> "none",
                        pending |-> NoEx, rc |-> CBOX_SUCCESS, crash |-> FALSE]
               r    == new_prekeys_loop(0, j_ptr, j_start, j_num, at, fault, code,
                                        ctorId["pkbundle"], acc0)
               bundlesNull == fault = "array"            \* NewObjectArray
           IN  IF cboxjni_check_error(Raised(bundlesNull), bundlesNull)
               THEN /\ last' = [call EXCEPT !.ret = "null", !.pending = RuntimeEx]
                    /\ UNCHANGED <<bufVars, crashed>>
               ELSE /\ last' = [call EXCEPT !.ret = r.ret, !.rc = r.rc,
                                    !.pending = r.pending, !.trace = r.trace,
                                    !.vecs = r.vecs,
                                    !.bundles = IF r.ret = "bundles" THEN r.built ELSE <<>>]
                    /\ Account(r.vecs, 0)
                    /\ crashed' = r.crash
    /\ UNCHANGED <<cacheVars, handles, wrappers, thr>>

\* a call whose last step is "return cboxjni_vec2arr(...)"
ReturnVec(call, tPre, conv) ==
    /\ last' = [call EXCEPT !.ret = IF conv.crash THEN "crash"
                                    ELSE IF conv.isNull THEN "null" ELSE "arr",
                            !.arr = conv.arr, !.pending = conv.pending,
                            !.trace = tPre \o conv.trace,
                            !.vecs = conv.vecs, !.nullFrees = conv.nullFrees]
    /\ Account(conv.vecs, conv.nullFrees)
    /\ crashed' = conv.crash

FingerprintFaults == {"none", "alloc", "copy"}

cboxjni_local_fingerprint ==
    /\ Callable("box")
    /\ \E j_ptr \in LivePtrs("box"), fault \in FingerprintFaults :
        LET fp   == 1
            conv == cboxjni_vec2arr(fp, EngineBytes(j_ptr), NoEx, fault # "alloc",
                                    fault # "copy", "garbage", VecNew(<<>>), 0)
        IN  ReturnVec([NoCall EXCEPT !.op = "local_fingerprint", !.ptr = j_ptr,
                                     !.fault = fault],
                      <<Ev("cbox_fingerprint_local", j_ptr, 0)>>, conv)
    /\ UNCHANGED <<cacheVars, handles, wrappers, thr>>

\* the tail shared by the methods that end in
\* "if (rc != CBOX_SUCCESS) { throw; return NULL; } return cboxjni_new_session(...)"
ReturnSession(call, tCall, rc, exOk, j_sid, objOk) ==
    IF rc # CBOX_SUCCESS
    THEN /\ last' = [call EXCEPT !.ret = "null", !.rc = rc,
                                 !.trace = raise_and_return(tCall, rc),
                                 !.pending = cboxjni_throw(rc, exOk)]
         /\ UNCHANGED <<handles, wrappers>>
    ELSE LET sess == Len(handles) + 1
             w    == cboxjni_new_session(wrappers, sess, j_sid, objOk, TRUE)
         IN  /\ handles' = NewHandle(handles, "sess")
             /\ wrappers' = w.wrappers
             /\ last' = [call EXCEPT !.ret = IF w.isNull THEN "null" ELSE "obj",
                                     !.obj = w.obj, !.trace = tCall,
                                     !.pending = w.pending]

InitFaults == {"none", "sid", "arr", "native", "throw", "ctor"}

cboxjni_init_from_prekey ==
    /\ Callable("box")
    /\ \E j_ptr \in LivePtrs("box"), j_sid \in Sids, len \in Lens,
          fault \in InitFaults, code \in ErrCodes :
        /\ (fault # "native" => code = 1)
        /\ (Creating(fault) => NumHandles("sess") < MaxSessions)
        /\ LET call == [NoCall EXCEPT !.op = "init_from_prekey", !.ptr = j_ptr,
                                      !.fault = fault, !.len = len]
               sidNull == fault = "sid"                  \* GetStringUTFChars
               prekey_len == AsUint16(len)
               prekeyNull == fault = "arr"               \* GetByteArrayElements
               tSid == <<Ev("GetStringUTFChars", 0, IF sidNull THEN NULL ELSE 1)>>
               tArr == tSid \o <<Ev("GetByteArrayElements", len,
                                     IF prekeyNull THEN NULL ELSE 1)>>
               tCall == tArr \o <<Ev("cbox_session_init_from_prekey", j_ptr, prekey_len),
                                  Ev("ReleaseByteArrayElements", JNI_ABORT, 0),
                                  Ev("ReleaseStringUTFChars", 0, 0)>>
           IN  IF cboxjni_check_error(Raised(sidNull), sidNull)
               THEN /\ last' = [call EXCEPT !.ret = "null", !.trace = tSid,
                                            !.pending = RuntimeEx]
                    /\ UNCHANGED <<handles, wrappers>>
               ELSE IF prekeyNull
               THEN /\ last' = [call EXCEPT !.ret = "null",
                                    !.trace = release_sid(tArr),
                                    !.pending = RuntimeEx]
                    /\ UNCHANGED <<handles, wrappers>>
               ELSE ReturnSession(call, tCall, EngineRc(fault, code), fault # "throw",
                                  j_sid, fault # "ctor")
    /\ UNCHANGED <<cacheVars, bufVars, crashed, thr>>

GetFaults == {"none", "sid", "native", "throw", "ctor"}

cboxjni_session_get ==
    /\ Callable("box")
    /\ \E j_ptr \in LivePtrs("box"), j_sid \in Sids, fault \in GetFaults, code \in ErrCodes :
        /\ (fault # "native" => code = 1)
        /\ (Creating(fault) => NumHandles("sess") < MaxSessions)
        /\ LET call == [NoCall EXCEPT !.op = "session_get", !.ptr = j_ptr, !.fault = fault]
               sidNull == fault = "sid"                  \* GetStringUTFChars
               tSid == <<Ev("GetStringUTFChars", 0, IF sidNull THEN NULL ELSE 1)>>
               tCall == tSid \o <<Ev("cbox_session_get", j_ptr, 0),
                                  Ev("ReleaseStringUTFChars", 0, 0)>>
           IN  IF cboxjni_check_error(Raised(sidNull), sidNull)
               THEN /\ last' = [call EXCEPT !.ret = "null", !.trace = tSid,
                                            !.pending = RuntimeEx]
                    /\ UNCHANGED <<handles, wrappers>>
               ELSE ReturnSession(call, tCall, EngineRc(fault, code), fault # "throw",
                                  j_sid, fault # "ctor")
    /\ UNCHANGED <<cacheVars, bufVars, crashed, thr>>

MessageFaults == InitFaults \cup {"alloc", "copy", "pair"}

cboxjni_init_from_message ==
    /\ Callable("box")
    /\ \E j_ptr \in LivePtrs("box"), j_sid \in Sids, len \in Lens,
          fault \in MessageFaults, code \in ErrCodes :
        /\ (fault # "native" => code = 1)
        /\ (Creating(fault) => NumHandles("sess") < MaxSessions)
        /\ LET call == [NoCall EXCEPT !.op = "init_from_message", !.ptr = j_ptr,
                                      !.fault = fault, !.len = len]
               rc   == EngineRc(fault, code)
               sidNull == fault = "sid"                  \* GetStringUTFChars
               message_len == AsUint32(len)
               messageNull == fault = "arr"              \* GetByteArrayElements
               tSid == <<Ev("GetStringUTFChars", 0, IF sidNull THEN NULL ELSE 1)>>
               tArr == tSid \o <<Ev("GetByteArrayElements", len,
                                     IF messageNull THEN NULL ELSE 1)>>
               tCall == tArr \o <<Ev("cbox_session_init_from_message", j_ptr, message_len),
                                  Ev("ReleaseByteArrayElements", JNI_ABORT, 0),
                                  Ev("ReleaseStringUTFChars", 0, 0)>>
               sess  == Len(handles) + 1
               plain == 1
               \* the session object reaches the caller inside the pair only
               inPair == fault \notin {"alloc", "copy", "pair"}
               j_sess == cboxjni_new_session(wrappers, sess, j_sid, fault # "ctor", inPair)
               conv  == cboxjni_vec2arr(plain, EngineBytes(len), j_sess.pending,
                                        fault # "alloc", fault # "copy", "garbage",
                                        VecNew(<<>>), 0)
               swmNull == fault = "pair"                 \* NewObject of the pair
           IN  IF cboxjni_check_error(Raised(sidNull), sidNull)
               THEN /\ last' = [call EXCEPT !.ret = "null", !.trace = tSid,
                                            !.pending = RuntimeEx]
                    /\ UNCHANGED <<handles, wrappers, bufVars>>
               ELSE IF messageNull
               THEN /\ last' = [call EXCEPT !.ret = "null",
                                    !.trace = release_sid(tArr),
                                    !.pending = RuntimeEx]
                    /\ UNCHANGED <<handles, wrappers, bufVars>>
               ELSE IF rc # CBOX_SUCCESS
               THEN /\ last' = [call EXCEPT !.ret = "null", !.rc = rc,
                                    !.trace = raise_and_return(tCall, rc),
                                    !.pending = cboxjni_throw(rc, fault # "throw")]
                    /\ UNCHANGED <<handles, wrappers, bufVars>>
               ELSE /\ handles' = NewHandle(handles, "sess")
                    /\ wrappers' = j_sess.wrappers
                    /\ Account(conv.vecs, conv.nullFrees)
                    /\ IF conv.isNull       \* j_plaintext == NULL
                       THEN last' = [call EXCEPT !.ret = "null",
                                        !.trace = tCall \o conv.trace,
                                        !.vecs = conv.vecs,
                                        !.pending = conv.pending]
                       ELSE last' = [call EXCEPT     \* return j_swm
                                        !.ret = IF swmNull THEN "null" ELSE "pair",
                                        !.obj = IF swmNull THEN 0 ELSE j_sess.obj,
                                        !.arr = IF swmNull THEN <<>> ELSE conv.arr,
                                        !.trace = tCall \o conv.trace,
                                        !.vecs = conv.vecs,
                                        !.pending = Raised(swmNull)]
    /\ UNCHANGED <<cacheVars, crashed, thr>>

\* ---- CryptoSession methods ----------------------------------------------------
EncryptFaults == {"none", "arr", "native", "alloc", "copy"}

\* jniEncrypt on j_ptr with an array of len bytes, under a fault.  The
\* result of cbox_encrypt is discarded; when the engine fails, cipher is
\* still NULL when it reaches cboxjni_vec2arr
session_encrypt(j_ptr, len, fault, code, ub) ==
    /\ (fault # "native" => code = 1 /\ ub = "garbage")
    /\ LET call == [NoCall EXCEPT !.op = "encrypt", !.ptr = j_ptr,
                                  !.fault = fault, !.len = len]
           rc   == IF fault = "native" THEN code ELSE CBOX_SUCCESS
           plain_len == AsUint32(len)
           plainNull == fault = "arr"                \* GetByteArrayElements
           cipher == IF rc = CBOX_SUCCESS THEN 1 ELSE NULL
           tArr == <<Ev("GetByteArrayElements", len,
                        IF plainNull THEN NULL ELSE 1)>>
           tCall == tArr \o <<Ev("cbox_encrypt", j_ptr, plain_len),
                              Ev("ReleaseByteArrayElements", JNI_ABORT, 0)>>
           conv == cboxjni_vec2arr(cipher, EngineBytes(j_ptr), NoEx, fault # "alloc",
                                   fault # "copy", ub,
                                   IF cipher = NULL THEN <<>> ELSE VecNew(<<>>), 0)
       IN  IF cboxjni_check_error(Raised(plainNull), plainNull)
           THEN /\ last' = [call EXCEPT !.ret = "null", !.trace = tArr,
                                        !.pending = RuntimeEx]
                /\ UNCHANGED <<bufVars, crashed>>
           ELSE ReturnVec([call EXCEPT !.rc = rc], tCall, conv)
    /\ UNCHANGED <<cacheVars, handles, wrappers>>

cboxjni_session_encrypt ==
    /\ Callable("sess")
    /\ \E j_ptr \in LivePtrs("sess"), len \in Lens, fault \in EncryptFaults,
          code \in ErrCodes, ub \in {"crash", "garbage"} :
        session_encrypt(j_ptr, len, fault, code, ub)
    /\ UNCHANGED thr

DecryptFaults == {"none", "arr", "native", "throw", "alloc", "copy"}

\* jniDecrypt on j_ptr with an array of len bytes, under a fault
session_decrypt(j_ptr, len, fault, code) ==
    /\ (fault # "native" => code = 1)
    /\ LET call == [NoCall EXCEPT !.op = "decrypt", !.ptr = j_ptr,
                                  !.fault = fault, !.len = len]
           rc   == EngineRc(fault, code)
           cipher_len == AsUint32(len)
           cipherNull == fault = "arr"               \* GetByteArrayElements
           plain == 1
           tArr == <<Ev("GetByteArrayElements", len,
                        IF cipherNull THEN NULL ELSE 1)>>
           tCall == tArr \o <<Ev("cbox_decrypt", j_ptr, cipher_len),
                              Ev("ReleaseByteArrayElements", JNI_ABORT, 0)>>
           conv == cboxjni_vec2arr(plain, EngineBytes(len), NoEx, fault # "alloc",
                                   fault # "copy", "garbage", VecNew(<<>>), 0)
       IN  IF cboxjni_check_error(Raised(cipherNull), cipherNull)
           THEN /\ last' = [call EXCEPT !.ret = "null", !.trace = tArr,
                                        !.pending = RuntimeEx]
                /\ UNCHANGED <<bufVars, crashed>>
           ELSE IF rc # CBOX_SUCCESS
           THEN /\ last' = [call EXCEPT !.ret = "null", !.rc = rc,
                                !.trace = raise_and_return(tCall, rc),
                                !.pending = cboxjni_throw(rc, fault # "throw")]
                /\ UNCHANGED <<bufVars, crashed>>
           ELSE ReturnVec(call, tCall, conv)
    /\ UNCHANGED <<cacheVars, handles, wrappers>>

cboxjni_session_decrypt ==
    /\ Callable("sess")
    /\ \E j_ptr \in LivePtrs("sess"), len \in Lens, fault \in DecryptFaults,
          code \in ErrCodes :
        session_decrypt(j_ptr, len, fault, code)
    /\ UNCHANGED thr

SaveFaults == {"none", "native", "throw"}

cboxjni_session_save ==
    /\ Callable("sess")
    /\ \E j_ptr \in LivePtrs("sess"), fault \in SaveFaults, code \in ErrCodes :
        /\ (fault # "native" => code = 1)
        /\ LET rc == EngineRc(fault, code)
           IN  last' = [NoCall EXCEPT !.op = "save", !.ptr = j_ptr, !.fault = fault,
                           !.rc = rc, !.ret = "void",
                           !.trace = IF rc # CBOX_SUCCESS
                                     THEN raise_and_return(
                                              <<Ev("cbox_session_save", j_ptr, 0)>>, rc)
                                     ELSE <<Ev("cbox_session_save", j_ptr, 0)>>,
                           !.pending = IF rc # CBOX_SUCCESS
                                       THEN cboxjni_throw(rc, fault # "throw")
                                       ELSE NoEx]
    /\ UNCHANGED <<cacheVars, handles, bufVars, wrappers, crashed, thr>>

\* cbox_session_close on whatever address the caller passes; on an address
\* already closed the release is undefined: the process dies or goes on
cboxjni_session_close ==
    /\ Callable("sess")
    /\ \E j_ptr \in HeldPtrs("sess"), ub \in {"crash", "garbage"} :
        /\ (ub = "crash" => ~Live(j_ptr))
        /\ handles' = CloseHandle(handles, j_ptr)
        /\ crashed' = (ub = "crash")
        /\ last' = [NoCall EXCEPT !.op = "session_close", !.ptr = j_ptr,
                        !.ret = IF ub = "crash" THEN "crash" ELSE "void",
                        !.trace = <<Ev("cbox_session_close", j_ptr, 0)>>]
    /\ UNCHANGED <<cacheVars, bufVars, wrappers, thr>>

cboxjni_remote_fingerprint ==
    /\ Callable("sess")
    /\ \E j_ptr \in LivePtrs("sess"), fault \in FingerprintFaults :
        LET fp   == 1
            conv == cboxjni_vec2arr(fp, EngineBytes(j_ptr), NoEx, fault # "alloc",
                                    fault # "copy", "garbage", VecNew(<<>>), 0)
        IN  ReturnVec([NoCall EXCEPT !.op = "remote_fingerprint", !.ptr = j_ptr,
                                     !.fault = fault],
                      <<Ev("cbox_fingerprint_remote", j_ptr, 0)>>, conv)
    /\ UNCHANGED <<cacheVars, handles, wrappers, thr>>

Next ==
    \/ JNI_OnLoad
    \/ JNI_OnUnload
    \/ cboxjni_open
    \/ cboxjni_close
    \/ cboxjni_new_prekeys
    \/ cboxjni_local_fingerprint
    \/ cboxjni_init_from_prekey
    \/ cboxjni_init_from_message
    \/ cboxjni_session_get
    \/ cboxjni_session_encrypt
    \/ cboxjni_session_decrypt
    \/ cboxjni_session_save
    \/ cboxjni_session_close
    \/ cboxjni_remote_fingerprint

Spec == Init /\ [][Next]_vars

\* The runs of a caller that uses a store for its keys only: it opens and
\* closes stores, generates prekeys and reads the local fingerprint.  The
\* methods left out change none of the variables jniNewPreKeys reads
\* (cacheVars, the store handles and their wrappers).
NextPrekeys ==
    \/ JNI_OnLoad
    \/ JNI_OnUnload
    \/ cboxjni_open
    \/ cboxjni_close
    \/ cboxjni_new_prekeys
    \/ cboxjni_local_fingerprint

SpecPrekeys == Init /\ [][NextPrekeys]_vars

\* The runs of a caller that generates no prekeys: every native method but
\* jniNewPreKeys, which takes no string or array borrow and leaves handles
\* and wrappers unchanged.
NextSessions ==
    \/ JNI_OnLoad
    \/ JNI_OnUnload
    \/ cboxjni_open
    \/ cboxjni_close
    \/ cboxjni_local_fingerprint
    \/ cboxjni_init_from_prekey
    \/ cboxjni_init_from_message
    \/ cboxjni_session_get
    \/ cboxjni_session_encrypt
    \/ cboxjni_session_decrypt
    \/ cboxjni_session_save
    \/ cboxjni_session_close
    \/ cboxjni_remote_fingerprint

SpecSessions == Init /\ [][NextSessions]_vars

\* The runs of a caller that generates its prekeys before it creates the
\* first session: every native method, jniNewPreKeys while no session exists.
new_prekeys_first ==
    /\ NumHandles("sess") = 0
    /\ cboxjni_new_prekeys

NextStaged ==
    \/ NextSessions
    \/ new_prekeys_first

SpecStaged == Init /\ [][NextStaged]_vars

\* ---- two threads inside jniEncrypt / jniDecrypt ------------------------------
\* (mutant) a thread goes into the engine on a handle only while no other
\* thread is inside the engine on that handle
engine_entry_locked(t, h) ==
    \A u \in Threads \ {t} : ~(thr[u].pc = "engine" /\ thr[u].ptr = h)

\* what stands between thread t and its call of cbox_encrypt / cbox_decrypt on
\* handle h (lines 282..292, 305..314): nothing is acquired or waited for
engine_entry(t, h) == TRUE

\* the frame of a step that only moves a thread
ThreadMoves == UNCHANGED <<cacheVars, handles, bufVars, wrappers, last, crashed>>

\* thread t calls jniEncrypt or jniDecrypt and asks for the bytes of the
\* array; when the borrow fails the call returns at once
thread_call(t) ==
    /\ thr[t].pc = "java"
    /\ Callable("sess")
    /\ \E op \in {"encrypt", "decrypt"}, j_ptr \in LivePtrs("sess"), len \in Lens,
          arrOk \in BOOLEAN :
        IF arrOk
        THEN /\ thr' = [thr EXCEPT ![t] = [pc |-> "borrowed", op |-> op,
                                           ptr |-> j_ptr, len |-> len]]
             /\ ThreadMoves
        ELSE /\ IF op = "encrypt"
                THEN session_encrypt(j_ptr, len, "arr", 1, "garbage")
                ELSE session_decrypt(j_ptr, len, "arr", 1)
             /\ UNCHANGED thr

\* thread t calls cbox_encrypt / cbox_decrypt
thread_enter(t) ==
    /\ thr[t].pc = "borrowed"
    /\ ~crashed
    /\ engine_entry(t, thr[t].ptr)
    /\ thr' = [thr EXCEPT ![t].pc = "engine"]
    /\ ThreadMoves

\* the engine returns to thread t, which runs the rest of the method
thread_return(t) ==
    /\ thr[t].pc = "engine"
    /\ ~crashed
    /\ \E fault \in (EncryptFaults \cup DecryptFaults) \ {"arr"}, code \in ErrCodes,
          ub \in {"crash", "garbage"} :
        IF thr[t].op = "encrypt"
        THEN /\ fault \in EncryptFaults
             /\ session_encrypt(thr[t].ptr, thr[t].len, fault, code, ub)
        ELSE /\ fault \in DecryptFaults
             /\ ub = "garbage"
             /\ session_decrypt(thr[t].ptr, thr[t].len, fault, code)
    /\ thr' = [thr EXCEPT ![t] = InJava]

\* two threads are inside the engine on one handle: a data race on the
\* session, of which the process may die
thread_race(t) ==
    /\ thr[t].pc = "engine"
    /\ ~crashed
    /\ \E u \in Threads \ {t} : thr[u].pc = "engine" /\ thr[u].ptr = thr[t].ptr
    /\ crashed' = TRUE
    /\ last' = [NoCall EXCEPT
                  !.op = thr[t].op, !.ptr = thr[t].ptr, !.len = thr[t].len,
                  !.ret = "crash",
                  !.trace = <<Ev("GetByteArrayElements", thr[t].len, 1),
                              Ev(IF thr[t].op = "encrypt" THEN "cbox_encrypt"
                                 ELSE "cbox_decrypt", thr[t].ptr, AsUint32(thr[t].len))>>]
    /\ UNCHANGED <<cacheVars, handles, bufVars, wrappers, thr>>

\* The runs in which sessions are obtained with jniOpen and jniGetSession and
\* used by two threads that encrypt and decrypt.
NextThreads ==
    \/ JNI_OnLoad
    \/ cboxjni_open
    \/ cboxjni_session_get
    \/ \E t \in Threads : thread_call(t)
    \/ \E t \in Threads : thread_enter(t)
    \/ \E t \in Threads : thread_return(t)
    \/ \E t \in Threads : thread_race(t)

SpecThreads == Init /\ [][NextThreads]_vars


\* ---- properties ---------------------------------------------------------------
IsPrekeyEv(e) == e[1] = "cbox_new_prekey"
IsFreeEv(e)   == e[1] = "cbox_vec_free"
PrekeyEvents  == SelectSeq(last.trace, IsPrekeyEv)
FreeEvents    == SelectSeq(last.trace, IsFreeEv)
NativeCalled  == {last.trace[i][1] : i \in DOMAIN last.trace} \cap NativeOps

ValueOps == {"open", "new_prekeys", "local_fingerprint", "remote_fingerprint",
             "init_from_prekey", "init_from_message", "session_get",
             "encrypt", "decrypt"}
BorrowFaults == {"borrow", "sid", "arr"}
PrekeyIterFaults == {"native", "throw", "alloc", "copy", "ctor", "store"}

\* C1: after every call that returned, each buffer the engine produced has
\* been freed exactly once: no buffer is left unfreed, none is freed twice, and
\* the number of cbox_vec_free calls equals the number of buffers produced.
C1_BuffersFreedExactlyOnce ==
    ~crashed =>
        /\ vecLive = 0
        /\ vecOver = 0
        /\ nullFrees = 0
        /\ \A v \in DOMAIN last.vecs : last.vecs[v] = 1
        /\ Len(FreeEvents) = Len(last.vecs)

\* C2: whenever the engine reports a non-success code (and the runtime can
\* construct the failure object), the call ends with a pending typed failure
\* carrying that code and returns no converted buffer or object.
C2_NativeFailureIsRaised ==
    (last.rc # CBOX_SUCCESS /\ last.fault # "throw") =>
        /\ last.pending = TypedEx(last.rc)
        /\ last.ret \in {"null", "void"}

\* C3: no live native handle exists that is not owned by a wrapper returned
\* to the caller.
C3_NoOrphanHandle ==
    \A h \in DOMAIN handles :
        Live(h) => \E i \in DOMAIN wrappers :
                      wrappers[i].held /\ wrappers[i].ptr = h

\* C4: cbox_session_close is performed at most once for a session handle.
C4_SessionClosedAtMostOnce ==
    \A h \in DOMAIN handles :
        handles[h].kind = "sess" => handles[h].closes <= 1

\* C5: when no step fails, generate prekeys returns exactly j_num bundles,
\* the bundle at index i carrying id j_start + i and the bytes the engine
\* produced for that id; with j_num = 0 the array is empty, no native prekey
\* call is made and nothing is raised.
C5_PrekeysComplete ==
    (last.op = "new_prekeys" /\ last.fault = "none") =>
        /\ last.ret = "bundles"
        /\ last.pending = NoEx
        /\ Len(last.bundles) = last.num
        /\ Len(PrekeyEvents) = last.num
        /\ \A i \in DOMAIN last.bundles :
              /\ last.bundles[i].id = last.start + (i - 1)
              /\ PrekeyEvents[i][3] = last.start + (i - 1)
              /\ last.bundles[i].key = EngineBytes(last.start + (i - 1))

C5_Witness ==
    /\ last.op = "new_prekeys"
    /\ last.fault = "none"
    /\ last.num = 2
    /\ Len(last.bundles) = 2

\* C6: a failure at iteration k of generate prekeys returns the sentinel and
\* no array, asks the engine for no id above j_start + k, and leaves every
\* buffer obtained so far, the one of the failing iteration included, freed.
C6_PrekeyFailureAborts ==
    (last.op = "new_prekeys" /\ last.fault \in PrekeyIterFaults) =>
        /\ last.ret = "null"
        /\ last.bundles = <<>>
        /\ Len(PrekeyEvents) = last.at + 1
        /\ \A i \in DOMAIN PrekeyEvents : PrekeyEvents[i][3] <= last.start + last.at
        /\ Len(last.vecs) = IF last.fault \in {"native", "throw"}
                            THEN last.at ELSE last.at + 1
        /\ \A v \in DOMAIN last.vecs : last.vecs[v] = 1

C6_Witness ==
    /\ last.op = "new_prekeys"
    /\ last.fault = "alloc"
    /\ last.at = 1
    /\ last.ret = "null"
    /\ Len(last.vecs) = 2

\* C7: whenever a native method is registered, or JNI_OnLoad returned the
\* version, all six classes and all five constructors are resolved.
C7_RegisteredImpliesResolved ==
    (registered["box"] \/ registered["sess"] \/ loadRc = "JNI_VERSION_1_6") =>
        /\ \A c \in Classes : clsRef[c]
        /\ \A c \in Ctors : ctorId[c]

\* C8: a value-returning call that failed returns NULL with a failure
\* pending, and a call returns a non-NULL value only with nothing pending.
C8_FailureReturnsNullAndRaises ==
    (last.op \in ValueOps /\ last.ret # "crash") =>
        /\ last.fault # "none" => (last.ret = "null" /\ last.pending.kind # "none")
        /\ last.ret # "null" => last.pending.kind = "none"

\* C9: no two managed wrappers hold the same native handle.
C9_OneWrapperPerHandle ==
    \A i, j \in DOMAIN wrappers :
        i # j => wrappers[i].ptr # wrappers[j].ptr

\* two session wrappers for the same session id exist, one of them closed
C9_Witness ==
    \E i, j \in DOMAIN wrappers :
        /\ i # j
        /\ wrappers[i].cls = "sess" /\ wrappers[j].cls = "sess"
        /\ wrappers[i].sid = wrappers[j].sid
        /\ ~Live(wrappers[i].ptr)
        /\ Live(wrappers[j].ptr)
        /\ last.op = "session_get"

\* C10: when a string or byte-array borrow fails, the call returns NULL and
\* no native engine operation has been invoked.
C10_NoNativeCallAfterFailedBorrow ==
    last.fault \in BorrowFaults =>
        /\ last.ret = "null"
        /\ NativeCalled = {}

C10_Witness ==
    /\ last.op = "init_from_message"
    /\ last.fault = "arr"
    /\ last.ret = "null"
    /\ Len(last.trace) > 0


EngineOps == NativeOps \cup {"cbox_vec_len", "cbox_vec_data", "cbox_vec_free"}
IsThrowEv(e) == e[1] = "cboxjni_throw"

\* C12: once a call has raised the failure for a non-success result code, it
\* makes no further call into the native engine before it returns.
C12_NoEngineCallAfterRaise ==
    \A i \in DOMAIN last.trace :
        IsThrowEv(last.trace[i]) =>
            /\ last.ret \in {"null", "void"}
            /\ \A j \in DOMAIN last.trace :
                  j > i => last.trace[j][1] \notin EngineOps

\* generate prekeys raised at its second iteration, after the engine calls of
\* the first one
C12_Witness ==
    /\ last.op = "new_prekeys"
    /\ last.fault = "native"
    /\ last.at = 1
    /\ last.num = 2
    /\ Len(PrekeyEvents) = 2
    /\ IsThrowEv(last.trace[Len(last.trace)])

\* a borrow that was obtained (the JNI call returned a pointer), and the call
\* that releases a borrow of that kind
IsBorrowEv(e) ==
    /\ e[1] \in {"GetStringUTFChars", "GetByteArrayElements"}
    /\ e[3] # NULL
ReleaseOf(name) ==
    IF name = "GetStringUTFChars" THEN "ReleaseStringUTFChars"
    ELSE "ReleaseByteArrayElements"
IsReleaseEv(e) == e[1] \in {"ReleaseStringUTFChars", "ReleaseByteArrayElements"}

\* C13: every string or byte-array borrow a call obtained is released exactly
\* once before the call ends, nothing is released that was not borrowed, and
\* every byte-array release is made with JNI_ABORT.
C13_BorrowsReleasedOnce ==
    \A i \in DOMAIN last.trace :
        LET e == last.trace[i]
        IN  /\ IsBorrowEv(e) =>
                  Cardinality({j \in DOMAIN last.trace :
                                  j > i /\ last.trace[j][1] = ReleaseOf(e[1])}) = 1
            /\ IsReleaseEv(e) =>
                  \E j \in DOMAIN last.trace :
                      /\ j < i
                      /\ IsBorrowEv(last.trace[j])
                      /\ ReleaseOf(last.trace[j][1]) = e[1]
            /\ e[1] = "ReleaseByteArrayElements" => e[2] = JNI_ABORT

\* session from prekey obtained the string, failed to obtain the array and
\* released the string on its way out
C13_Witness ==
    /\ last.op = "init_from_prekey"
    /\ last.fault = "arr"
    /\ last.ret = "null"
    /\ \E i \in DOMAIN last.trace : IsBorrowEv(last.trace[i])
    /\ \E i \in DOMAIN last.trace : last.trace[i][1] = "ReleaseStringUTFChars"

\* the engine operations that take the bytes of a managed array and their length
ArrayOps == {"cbox_session_init_from_prekey", "cbox_session_init_from_message",
             "cbox_encrypt", "cbox_decrypt"}

\* C14: the length handed to the engine with the bytes of a managed array is
\* the length of that array, whatever the length is.
C14_LengthPassedIntact ==
    \A i \in DOMAIN last.trace :
        last.trace[i][1] \in ArrayOps => last.trace[i][3] = last.len

\* C15: no entry point takes a lock on a handle: a thread that holds the
\* borrowed bytes can always go on into the engine, also while another thread
\* is inside the engine on the same handle.
C15_EngineEntryNeverBlocked ==
    \A t \in Threads :
        (thr[t].pc = "borrowed" /\ ~crashed) => ENABLED thread_enter(t)

\* both threads are inside the engine on one session handle
C15_Witness ==
    /\ \A t \in Threads : thr[t].pc = "engine"
    /\ \A t, u \in Threads : thr[t].ptr = thr[u].ptr
    /\ \E h \in DOMAIN handles : handles[h].kind = "sess" /\ thr["t1"].ptr = h

\* C16: cboxjni_vec2arr, whose first step reads the length of its buffer, is
\* never given the NULL pointer a failed engine operation left untouched.
C16_Vec2arrGetsEngineBuffer ==
    \A i \in DOMAIN last.trace :
        last.trace[i][1] = "cbox_vec_len" => last.trace[i][2] # NULL

\* C17: when session from message returns a pair, the pair holds a session
\* wrapper, handed to the caller, around the handle the engine just created
\* and an array equal to the plaintext buffer of the engine; when the session
\* wrapper could not be constructed, the sentinel is returned and no pair.
C17_PairIsComplete ==
    last.op = "init_from_message" =>
        /\ last.ret = "pair" =>
              /\ last.obj \in DOMAIN wrappers
              /\ wrappers[last.obj].cls = "sess"
              /\ wrappers[last.obj].held
              /\ wrappers[last.obj].ptr = Len(handles)
              /\ handles[Len(handles)].kind = "sess"
              /\ last.arr # <<>>
              /\ last.arr = EngineBytes(last.len)
        /\ last.fault = "ctor" =>
              /\ last.ret = "null"
              /\ last.obj = 0
              /\ last.pending.kind # "none"

C17_Witness ==
    /\ last.op = "init_from_message"
    /\ last.ret = "pair"
    /\ last.obj \in DOMAIN wrappers
    /\ Len(last.arr) = 2
====
